---- MODULE Spec2Model ----
(***************************************************************************)
(* Model of the two Dash pages of 48hd-hover-plot:                         *)
(*   src/app.py       the Manhattan plot page  (upload_data, update_graph) *)
(*   src/pages/r3.py  the ranked (R3) page     (upload_data, update_graph) *)
(* The state is the set of component properties the callbacks read and     *)
(* write (dcc.Store data, dropdown options/values, clickData, selectedData,*)
(* the erase switch, the figure and the export table).  Every action is    *)
(* one user event followed by the whole callback it triggers.  The scale   *)
(* and page-count dropdowns of app.py only choose the plotted value column *)
(* and the layout height; the model carries neither, nor the measurement   *)
(* cells they are computed from, so these two inputs appear as events only.*)
(***************************************************************************)
EXTENDS Integers, Sequences, FiniteSets, TLC

(***************************************************************************)
(* Bounds of the model.                                                    *)
(***************************************************************************)
MaxRows == 3
MaxViewRows == 3
MaxSessionRows == 2
MaxLasso == 2
MaxR3Rows == 4

\* the number of rows of a trace that r3.py highlights per ranking
\* (r3.py 270-271 take the last 200 of the sorted values); scaled to the
\* tables of the model
TopK == 2

(***************************************************************************)
(* Python values.                                                          *)
(***************************************************************************)
None == [none |-> TRUE]
Some(v) == [none |-> FALSE, val |-> v]
\* a dropdown value that is a single string rather than a list
Str(v) == [none |-> FALSE, str |-> TRUE, val |-> v]
IsNone(x) == x.none

Range(s) == {s[i] : i \in 1..Len(s)}

\* sequences over S of length 0..n
SeqUpTo(S, n) == UNION {[1..k -> S] : k \in 0..n}

\* lexicographic <= on integer tuples of equal length
RECURSIVE LexLeq(_, _)
LexLeq(a, b) ==
  IF a = <<>> THEN TRUE
  ELSE IF Head(a) < Head(b) THEN TRUE
  ELSE IF Head(a) > Head(b) THEN FALSE
  ELSE LexLeq(Tail(a), Tail(b))

\* DataFrame.sort(by) is called without maintain_order: the result is some
\* permutation of the rows that is non-decreasing in the key; the order of
\* rows with equal keys is not fixed.  The set of index sequences it may
\* return, for key tuples key[i], i \in S.
RECURSIVE SortOrders(_, _)
SortOrders(S, key) ==
  IF S = {} THEN {<<>>}
  ELSE UNION { {<<i>> \o t : t \in SortOrders(S \ {i}, key)} :
               i \in {j \in S : \A k \in S : LexLeq(key[j], key[k])} }

(***************************************************************************)
(* Column names.  "'FC' in col" is a substring test; it is tabulated for   *)
(* the column names the model uploads.                                     *)
(***************************************************************************)
FCNames == {"FC.A", "FC.B", "FC"}
HasFC(col) == col \in FCNames

\* app.py line 123
required_columns == <<"GroupID", "Position", "seq_origin", "sequence", "Input_CPM">>

(***************************************************************************)
(* String orders used by the sorts (Utf8 columns sort lexically).          *)
(***************************************************************************)
Origins == {"A", "B"}
Positions == {"0Z", "1A"}
GroupIDs == {1, 2}
SequenceIds == {"s1", "s2"}
StrRank(s) ==
  CASE s = "0Z" -> 0 [] s = "1A" -> 1
    [] s = "A" -> 2 [] s = "B" -> 3 [] s = "GS1" -> 4 [] s = "Ref" -> 5
    [] s = "parent" -> 6 [] s = "s1" -> 7 [] s = "s2" -> 8
    [] s = "selection" -> 9 [] s = "unmapped" -> 10

\* sorted(set of strings)
RECURSIVE SortedList(_)
SortedList(S) ==
  IF S = {} THEN <<>>
  ELSE LET m == CHOOSE x \in S : \A y \in S : StrRank(x) <= StrRank(y)
       IN <<m>> \o SortedList(S \ {m})

(***************************************************************************)
(* Uploaded files.  A parsed file is its extension, its schema (the column *)
(* names in file order) and its rows.  Measurement cells are not modelled: *)
(* no callback of app.py branches on them.                                 *)
(***************************************************************************)
RawRows ==
  [GroupID : GroupIDs, Position : Positions, seq_origin : Origins,
   sequence : SequenceIds, Input_CPM : {10}]

FCLists == {<<>>, <<"FC.A">>, <<"FC.A", "FC.B">>, <<"FC.B", "FC.A">>}

\* schemas: the required columns with any subset left out, one extra column
\* that no callback uses, then the measurement columns
Schemas ==
  {SelectSeq(required_columns, LAMBDA c : c \in keep) \o extra \o fc :
     keep \in SUBSET Range(required_columns),
     extra \in {<<>>, <<"note">>},
     fc \in FCLists}

Extensions == {"csv", "xlsx", "txt"}

(***************************************************************************)
(* app.py upload_data                                                      *)
(***************************************************************************)
EmptyUpload(children) ==
  [data_store |-> <<>>, upload_children |-> children,
   column_options |-> <<>>, column_value |-> None, sequence_options |-> <<>>]

\* FirstMissing with the abundance column left unchecked
FirstMissingNoAbundance(required, schema) ==
  LET missing == {i \in 1..(Len(required) - 1) : required[i] \notin Range(schema)}
  IN IF missing = {} THEN 0
     ELSE CHOOSE i \in missing : \A j \in missing : i <= j

\* app.py 125-127: the first required column that the schema lacks
FirstMissing(required, schema) ==
  LET missing == {i \in 1..Len(required) : required[i] \notin Range(schema)}
  IN IF missing = {} THEN 0
     ELSE CHOOSE i \in missing : \A j \in missing : i <= j

\* app.py 135: rows per GroupID
GroupCount(rows, g) == Cardinality({i \in 1..Len(rows) : rows[i].GroupID = g})

\* LegendOf with the group-size test off by one
LegendOfAnyGroup(row, count) ==
  IF count >= 1 /\ row.Position = "0Z" THEN "parent" ELSE row.seq_origin

\* app.py 141
LegendOf(row, count) ==
  IF count > 1 /\ row.Position = "0Z" THEN "parent" ELSE row.seq_origin

\* app.py 137-143: one stored row, k-th (0-based index k) of the sorted table
StoredRow(row, count, fc, k) ==
  [index |-> k, GroupID |-> row.GroupID, Position |-> row.Position,
   seq_origin |-> row.seq_origin, sequence |-> row.sequence,
   Input_CPM |-> row.Input_CPM, fc_columns |-> fc,
   Legend |-> LegendOf(row, count)]

\* app.py 138
UploadSortKey(rows) ==
  [i \in 1..Len(rows) |->
     <<StrRank(rows[i].seq_origin), rows[i].GroupID, StrRank(rows[i].Position)>>]

\* app.py 108-151: the set of results upload_data may return (the sort of
\* line 138 leaves the order of rows with equal keys open)
upload_data(contents) ==
  IF IsNone(contents) THEN {EmptyUpload([kind |-> "prompt"])}
  ELSE LET file == contents.val
           miss == FirstMissing(required_columns, file.schema)
           fc == SelectSeq(file.schema, HasFC)
       IN IF file.ext \notin {"csv", "xlsx"}
            THEN {EmptyUpload([kind |-> "error_reading"])}
          ELSE IF miss # 0
            THEN {EmptyUpload([kind |-> "missing_column",
                               column |-> required_columns[miss]])}
          ELSE IF Len(fc) = 0
            THEN {EmptyUpload([kind |-> "no_fc_columns"])}
          ELSE
            {[data_store |->
                [k \in 1..Len(ord) |->
                   StoredRow(file.rows[ord[k]],
                             GroupCount(file.rows, file.rows[ord[k]].GroupID),
                             fc, k - 1)],
              upload_children |-> [kind |-> "file"],
              column_options |-> fc,
              column_value |-> Str(fc[1]),
              sequence_options |->
                SortedList({file.rows[i].sequence : i \in 1..Len(file.rows)})] :
             ord \in SortOrders(1..Len(file.rows), UploadSortKey(file.rows))}

(***************************************************************************)
(* app.py update_graph                                                     *)
(***************************************************************************)
EmptyFig == [plot_data |-> <<>>]

\* app.py 170: "not y_columns" (None, or an empty list; column names are
\* non-empty strings)
Falsy(y_columns) ==
  IsNone(y_columns) \/ ("str" \notin DOMAIN y_columns /\ y_columns.val = <<>>)

\* app.py 176-177
AsList(y_columns) ==
  IF "str" \in DOMAIN y_columns THEN <<y_columns.val>> ELSE y_columns.val

\* ApplyClick as a toggle that ignores the erase switch
ApplyClickToggle(selected, click_data, erase) ==
  IF IsNone(click_data) THEN selected
  ELSE LET selection == click_data.val
       IN IF IsNone(selected) THEN Some(<<selection>>)
          ELSE IF selection \in Range(selected.val)
            THEN Some(SelectSeq(selected.val, LAMBDA x : x # selection))
          ELSE Some(selected.val \o <<selection>>)

\* app.py 179-190: click_data is None or Some(sequence of the clicked point)
ApplyClick(selected, click_data, erase) ==
  IF IsNone(click_data) THEN selected
  ELSE LET selection == click_data.val
       IN IF erase
            THEN IF IsNone(selected) THEN selected
                 ELSE Some(SelectSeq(selected.val, LAMBDA x : x # selection))
          ELSE IF IsNone(selected) THEN Some(<<selection>>)
          ELSE IF selection \notin Range(selected.val)
            THEN Some(selected.val \o <<selection>>)
          ELSE selected

\* app.py 192-203: selected_data is None or Some(sequences of the points)
ApplyLasso(selected, selected_data, erase) ==
  IF IsNone(selected_data) THEN selected
  ELSE LET selections == selected_data.val
       IN IF erase
            THEN IF IsNone(selected) THEN selected
                 ELSE Some(SelectSeq(selected.val,
                                     LAMBDA x : x \notin Range(selections)))
          ELSE IF IsNone(selected) THEN Some(selections)
          ELSE Some(selected.val \o
                    SelectSeq(selections,
                              LAMBDA x : x \notin Range(selected.val)))

\* WithSelection testing the first selected sequence only
WithSelectionFirstOnly(row, selected) ==
  IF selected.val # <<>> /\ row.sequence = selected.val[1]
    THEN [row EXCEPT !.Legend = "selection"] ELSE row

\* app.py 209-210
WithSelection(row, selected) ==
  IF row.sequence \in Range(selected.val)
    THEN [row EXCEPT !.Legend = "selection"] ELSE row

\* app.py 213-215: one export row (required columns and the FC columns)
ExportRow(row) ==
  [GroupID |-> row.GroupID, Position |-> row.Position,
   seq_origin |-> row.seq_origin, sequence |-> row.sequence,
   Input_CPM |-> row.Input_CPM, fc_columns |-> row.fc_columns]

\* app.py 207-218
SelectionData(plot_data, selected) ==
  IF IsNone(selected) THEN <<>>
  ELSE LET sel == SelectSeq(plot_data, LAMBDA r : r.Legend = "selection")
       IN [k \in 1..Len(sel) |-> ExportRow(sel[k])]

\* app.py 224-226: one row of the sub-table of y_column
PlotRow(row, y_column) ==
  [index |-> row.index, GroupID |-> row.GroupID, Position |-> row.Position,
   seq_origin |-> row.seq_origin, sequence |-> row.sequence,
   Input_CPM |-> row.Input_CPM, Legend |-> row.Legend, Target |-> y_column]

\* app.py 223-242: pl.concat of one sub-table per y_column
RECURSIVE Stack(_, _)
Stack(plot_data, y_columns) ==
  IF y_columns = <<>> THEN <<>>
  ELSE [k \in 1..Len(plot_data) |-> PlotRow(plot_data[k], Head(y_columns))]
       \o Stack(plot_data, Tail(y_columns))

\* The order of a Categorical column: the order of the categories' first
\* appearance in the column (physical order) or, in later polars releases,
\* the lexical order of the strings.
LegendCode(rows, legend, lexical) ==
  IF lexical THEN StrRank(legend)
  ELSE CHOOSE i \in 1..Len(rows) :
         rows[i].Legend = legend /\ \A j \in 1..(i - 1) : rows[j].Legend # legend

\* PlotSortKey with the first two sort columns exchanged
PlotSortKeyParentFirst(rows, lexical) ==
  [i \in 1..Len(rows) |->
     <<IF rows[i].Legend = "parent" THEN 1 ELSE 0,
       IF rows[i].Legend = "selection" THEN 1 ELSE 0,
       LegendCode(rows, rows[i].Legend, lexical)>>]

\* PlotSortKey without the Legend column
PlotSortKeyNoLegend(rows, lexical) ==
  [i \in 1..Len(rows) |->
     <<IF rows[i].Legend = "selection" THEN 1 ELSE 0,
       IF rows[i].Legend = "parent" THEN 1 ELSE 0>>]

\* app.py 254-256
PlotSortKey(rows, lexical) ==
  [i \in 1..Len(rows) |->
     <<IF rows[i].Legend = "selection" THEN 1 ELSE 0,
       IF rows[i].Legend = "parent" THEN 1 ELSE 0,
       LegendCode(rows, rows[i].Legend, lexical)>>]

\* app.py 253-257
SortedPlots(rows) ==
  {[k \in 1..Len(ord) |-> rows[ord[k]]] :
     ord \in UNION {SortOrders(1..Len(rows), PlotSortKey(rows, lexical)) :
                    lexical \in BOOLEAN}}

\* app.py 168-277: the set of results update_graph may return
update_graph(store_data, y_columns, selected, click_data, selected_data, erase) ==
  IF store_data = <<>> \/ Falsy(y_columns)
    THEN {[fig |-> EmptyFig, selected |-> None, click_data |-> None,
           selection_data |-> <<>>]}
  ELSE
    LET ys == AsList(y_columns)
        sel == ApplyLasso(ApplyClick(selected, click_data, erase),
                          selected_data, erase)
        plot_data == IF IsNone(sel) THEN store_data
                     ELSE [k \in 1..Len(store_data) |->
                             WithSelection(store_data[k], sel)]
    IN {[fig |-> [plot_data |-> sorted],
         selected |-> sel, click_data |-> None,
         selection_data |-> SelectionData(plot_data, sel)] :
        sorted \in SortedPlots(Stack(plot_data, ys))}

(***************************************************************************)
(* pages/r3.py: the ranked page.  It has the same components (their ids    *)
(* end in -r3) and the same callbacks' signatures, so its state is held in *)
(* the same variables.  The measurement columns of a file hold the same    *)
(* value in a row (FC); the only '<part>_CPM' column a file may have next  *)
(* to Input_CPM is A_CPM.                                                  *)
(***************************************************************************)
\* r3.py 121
required_columns_r3 == <<"GroupID", "Position", "seq_origin", "sequence">>

\* r3.py 128: 'CPM' in col
HasCPM(col) == col \in {"Input_CPM", "A_CPM"}

\* r3.py 165: y_column.split('.')
SplitDot(name) ==
  CASE name = "FC.A" -> <<"FC", "A">>
    [] name = "FC.B" -> <<"FC", "B">>
    [] name = "FC" -> <<"FC">>

\* r3.py 165: part + '_CPM'
CpmName(part) ==
  CASE part = "A" -> "A_CPM"
    [] part = "B" -> "B_CPM"

\* r3.py 133-135
StoredRowR3(row, columns) ==
  [GroupID |-> row.GroupID, Position |-> row.Position,
   seq_origin |-> row.seq_origin, sequence |-> row.sequence,
   Input_CPM |-> row.Input_CPM, A_CPM |-> row.A_CPM, FC |-> row.FC,
   columns |-> columns, Legend |-> row.seq_origin]

\* r3.py 106-143
upload_data_r3(file_contents) ==
  IF IsNone(file_contents)
    THEN {EmptyUpload([kind |-> "prompt"])}
  ELSE LET file == file_contents.val
           miss == FirstMissing(required_columns_r3, file.schema)
           cpm == SelectSeq(file.schema, HasCPM)
           fc == SelectSeq(file.schema, HasFC)
           columns == required_columns_r3 \o cpm \o fc \o <<"Legend">>
       IN IF file.ext \notin {"csv", "xlsx"}
            THEN {EmptyUpload([kind |-> "error_reading"])}
          ELSE IF miss # 0
            THEN {EmptyUpload([kind |-> "missing_column",
                               column |-> required_columns_r3[miss]])}
          ELSE IF Len(fc) = 0
            THEN {EmptyUpload([kind |-> "no_fc_columns"])}
          ELSE
            {[data_store |->
                [k \in 1..Len(file.rows) |-> StoredRowR3(file.rows[k], columns)],
              upload_children |-> [kind |-> "file"],
              column_options |-> fc,
              column_value |-> Str(fc[1]),
              sequence_options |->
                SortedList({file.rows[i].sequence : i \in 1..Len(file.rows)})]}

\* r3.py 203-205: one export row (the columns of required_columns and the
\* FC columns)
ExportRowR3(row) ==
  [GroupID |-> row.GroupID, Position |-> row.Position,
   seq_origin |-> row.seq_origin, sequence |-> row.sequence,
   Input_CPM |-> row.Input_CPM, cpm |-> row.A_CPM, FC |-> row.FC]

\* r3.py 197-208
SelectionDataR3(plot_data, selected) ==
  IF IsNone(selected) THEN <<>>
  ELSE LET sel == SelectSeq(plot_data, LAMBDA r : r.Legend = "selection")
       IN [k \in 1..Len(sel) |-> ExportRowR3(sel[k])]

\* r3.py 211-223: one row of the plotted table; cpm is its value in
\* cpm_column, y its value in y_column
PlotRowR3(row, y_column) ==
  [GroupID |-> row.GroupID, Position |-> row.Position,
   seq_origin |-> row.seq_origin, sequence |-> row.sequence,
   Input_CPM |-> row.Input_CPM, cpm |-> row.A_CPM, y |-> row.FC,
   Legend |-> row.Legend, Target |-> y_column]

\* r3.py 235-236
PlotSortKeyR3(rows, lexical) ==
  [i \in 1..Len(rows) |->
     <<IF rows[i].Legend = "selection" THEN 1 ELSE 0,
       LegendCode(rows, rows[i].Legend, lexical)>>]

\* r3.py 234-237
SortedPlotsR3(rows) ==
  {[k \in 1..Len(ord) |-> rows[ord[k]]] :
     ord \in UNION {SortOrders(1..Len(rows), PlotSortKeyR3(rows, lexical)) :
                    lexical \in BOOLEAN}}

\* r3.py 241-243: the rows of one origin, by Input_CPM descending, numbered
FacetOrders(rows, seq_origin) ==
  LET facet == SelectSeq(rows, LAMBDA r : r.seq_origin = seq_origin)
      key == [i \in 1..Len(facet) |-> <<0 - facet[i].Input_CPM>>]
  IN {[k \in 1..Len(ord) |->
         [index |-> k - 1, row |-> facet[ord[k]]]] :
      ord \in SortOrders(1..Len(facet), key)}

\* r3.py 239-245
RECURSIVE ConcatFacets(_, _)
ConcatFacets(rows, origins) ==
  IF origins = <<>> THEN {<<>>}
  ELSE {a \o b : a \in FacetOrders(rows, Head(origins)),
                 b \in ConcatFacets(rows, Tail(origins))}

\* r3.py 253-256
ControlOrigin(rows) ==
  LET gs == {rows[i].row.seq_origin : i \in 1..Len(rows)} \cap {"GS1"}
  IN IF gs = {} THEN "Ref" ELSE CHOOSE o \in gs : TRUE

\* sorted(values)
RECURSIVE SortedValues(_)
SortedValues(values) ==
  IF values = <<>> THEN <<>>
  ELSE LET m == CHOOSE i \in 1..Len(values) :
                  \A j \in 1..Len(values) : values[i] <= values[j]
       IN <<values[m]>>
          \o SortedValues([k \in 1..(Len(values) - 1) |->
                             IF k < m THEN values[k] ELSE values[k + 1]])

\* r3.py 270-271: sorted(values)[-200:]
Top(values) ==
  LET sorted == SortedValues(values)
  IN SubSeq(sorted, IF Len(sorted) > TopK THEN Len(sorted) - TopK + 1 ELSE 1,
            Len(sorted))

\* the two passes in the other order
HighlightColorAbundantLast(y, cpm, top_enriched, top_abundant, color) ==
  LET first == IF y \in Range(top_enriched) THEN "gold" ELSE color
  IN IF cpm \in Range(top_abundant) THEN "chocolate" ELSE first

\* r3.py 272-273: the two passes over the marker colours of a trace
HighlightColor(y, cpm, top_enriched, top_abundant, color) ==
  LET first == IF cpm \in Range(top_abundant) THEN "chocolate" ELSE color
  IN IF y \in Range(top_enriched) THEN "gold" ELSE first

\* the rows of the trace of px.scatter (r3.py 248: one per Legend and facet)
\* that holds row p
TraceOf(rows, p) ==
  SelectSeq(rows, LAMBDA q : /\ q.row.Legend = p.row.Legend
                             /\ q.row.seq_origin = p.row.seq_origin)

\* r3.py 258-273: the marker colour of a plotted row
MarkerColor(rows, p) ==
  LET trace == TraceOf(rows, p)
      name == p.row.Legend
  IN IF name = "unmapped" THEN "lightgray"
     ELSE IF name = ControlOrigin(rows) THEN "gray"
     ELSE IF name = "selection" THEN "red"
     ELSE HighlightColor(
            p.row.y, p.row.cpm,
            Top([k \in 1..Len(trace) |-> trace[k].row.y]),
            Top([k \in 1..Len(trace) |-> trace[k].row.cpm]),
            "default")

\* r3.py 248-273: the figure of a ranked table
FigureR3(rows) ==
  [plot_data |->
     [k \in 1..Len(rows) |->
        [index |-> rows[k].index, GroupID |-> rows[k].row.GroupID,
         Position |-> rows[k].row.Position,
         seq_origin |-> rows[k].row.seq_origin,
         sequence |-> rows[k].row.sequence,
         Input_CPM |-> rows[k].row.Input_CPM, cpm |-> rows[k].row.cpm,
         y |-> rows[k].row.y, Legend |-> rows[k].row.Legend,
         Target |-> rows[k].row.Target, color |-> MarkerColor(rows, rows[k])]]]

Raise(exception) == [raised |-> exception]

\* r3.py 159-283: the set of outcomes of update_graph: a result, or the
\* exception it raises
update_graph_r3(store_data, y_column, selected, click_data, selected_data, erase) ==
  IF store_data = <<>> \/ Falsy(y_column)
    THEN {[raised |-> "", fig |-> EmptyFig, selected |-> None,
           click_data |-> None, selection_data |-> <<>>]}
  ELSE IF Len(SplitDot(y_column.val)) < 2
    THEN {Raise("IndexError")}
  ELSE
    LET cpm_column == CpmName(SplitDot(y_column.val)[2])
        sel == ApplyLasso(ApplyClick(selected, click_data, erase),
                          selected_data, erase)
        required == required_columns \o <<cpm_column>>
        marked == IF IsNone(sel) THEN store_data
                  ELSE [k \in 1..Len(store_data) |->
                          WithSelection(store_data[k], sel)]
        plot_data == [k \in 1..Len(marked) |->
                        PlotRowR3(marked[k], y_column.val)]
        origins == SortedList({store_data[k].seq_origin :
                                 k \in 1..Len(store_data)})
    IN IF Range(required) \ Range(store_data[1].columns) # {}
         THEN {Raise("ColumnNotFoundError")}
       ELSE
         {[raised |-> "", fig |-> FigureR3(ranked), selected |-> sel,
           click_data |-> None,
           selection_data |-> SelectionDataR3(marked, sel)] :
          ranked \in UNION {ConcatFacets(sorted, origins) :
                            sorted \in SortedPlotsR3(plot_data)}}

(***************************************************************************)
(* State: the component properties of the page.                            *)
(*   contents          the parsed file held by 'upload-data'               *)
(*   data_store        dcc.Store 'data-store'                              *)
(*   upload_children   the label of the upload box                         *)
(*   column_options, column_value      'column-dropdown'                   *)
(*   sequence_options, selected        'sequence-dropdown'                 *)
(*   clickData, selectedData, fig      'manhattan-plot'                    *)
(*   erase             'boolean-switch'                                    *)
(*   selection_data    the export table 'selection-data'                   *)
(*   pending           upload_data has written column_value and the        *)
(*                     update_graph call it triggers has not run yet       *)
(*   error             the exception the latest update_graph call raised   *)
(*                     ("" when it returned)                               *)
(*   lastClick         the click event the latest update_graph call        *)
(*                     handled, and whether the call before it handled     *)
(*                     the same one                                        *)
(***************************************************************************)
VARIABLES contents, data_store, upload_children, column_options, column_value,
          sequence_options, selected, clickData, selectedData, erase, fig,
          selection_data, pending, error, lastClick

vars == <<contents, data_store, upload_children, column_options, column_value,
          sequence_options, selected, clickData, selectedData, erase, fig,
          selection_data, pending, error, lastClick>>

\* the page as laid out (app.py 55-96); no callback has run
Init ==
  /\ contents = None
  /\ data_store = <<>>
  /\ upload_children = [kind |-> "prompt"]
  /\ column_options = <<>>
  /\ column_value = None
  /\ sequence_options = <<>>
  /\ selected = None
  /\ clickData = None
  /\ selectedData = None
  /\ erase = FALSE
  /\ fig = EmptyFig
  /\ selection_data = <<>>
  /\ pending = FALSE
  /\ error = ""
  /\ lastClick = None

\* the outputs of upload_data (app.py 98-103); column_value is an input of
\* update_graph, which therefore runs next
SetUploadOutputs(file, r) ==
  /\ contents' = file
  /\ data_store' = r.data_store
  /\ upload_children' = r.upload_children
  /\ column_options' = r.column_options
  /\ column_value' = r.column_value
  /\ sequence_options' = r.sequence_options
  /\ pending' = TRUE
  /\ UNCHANGED <<selected, clickData, selectedData, erase, fig,
                 selection_data, error, lastClick>>

\* one call of update_graph with the page's current properties, except for
\* the ones the triggering event has just changed (app.py 153-168, 277)
Invoke(y_columns, sel, click_data, selected_data, er) ==
  /\ \E out \in update_graph(data_store, y_columns, sel, click_data,
                             selected_data, er) :
       /\ fig' = out.fig
       /\ selected' = out.selected
       /\ clickData' = out.click_data
       /\ selection_data' = out.selection_data
  /\ column_value' = y_columns
  /\ selectedData' = selected_data
  /\ erase' = er
  /\ pending' = FALSE
  /\ error' = ""
  /\ lastClick' =
       IF IsNone(click_data) THEN None
       ELSE Some([seq |-> click_data.val, erase |-> er,
                  repeated |-> ~IsNone(lastClick)
                               /\ lastClick.val.seq = click_data.val
                               /\ lastClick.val.erase = er])
  /\ UNCHANGED <<contents, data_store, upload_children, column_options,
                 sequence_options>>

\* files a session uploads: one measurement column, rows whose other fields
\* follow from the sequence, and the files upload_data turns down
SessionRow(s) ==
  [GroupID |-> 1, Position |-> IF s = "s1" THEN "0Z" ELSE "1A",
   seq_origin |-> IF s = "s1" THEN "A" ELSE "B", sequence |-> s,
   Input_CPM |-> 10]

SessionFiles ==
  {[ext |-> "csv", schema |-> required_columns \o <<"FC.A">>, rows |-> rows] :
     rows \in SeqUpTo({SessionRow(s) : s \in SequenceIds}, MaxSessionRows)}
  \cup {[ext |-> "txt", schema |-> required_columns \o <<"FC.A">>, rows |-> <<>>],
        [ext |-> "csv", schema |-> required_columns, rows |-> <<>>],
        [ext |-> "csv", schema |-> <<"GroupID", "Position", "seq_origin",
                                     "Input_CPM", "FC.A">>, rows |-> <<>>]}

\* the user drops a file on the upload box: upload_data runs
UploadData ==
  /\ ~pending
  /\ \E file \in {None} \cup {Some(f) : f \in SessionFiles} :
       \E r \in upload_data(file) : SetUploadOutputs(file, r)

\* update_graph, triggered by upload_data's write of column_value
UpdateGraphAfterUpload ==
  /\ pending
  /\ Invoke(column_value, selected, clickData, selectedData, erase)

\* values of a multi-select dropdown: lists of distinct options
Choices(options) ==
  {v \in SeqUpTo(Range(options), Len(options)) :
     \A i, j \in 1..Len(v) : i # j => v[i] # v[j]}

\* the user changes the column dropdown
SelectColumn ==
  /\ ~pending
  /\ \E v \in Choices(column_options) :
       /\ Some(v) # column_value
       /\ Invoke(Some(v), selected, clickData, selectedData, erase)

\* the user changes the scale dropdown
SelectScale ==
  /\ ~pending
  /\ Invoke(column_value, selected, clickData, selectedData, erase)

\* the user changes the pages dropdown
SelectPages ==
  /\ ~pending
  /\ Invoke(column_value, selected, clickData, selectedData, erase)

\* the user flips the erase switch
ToggleErase ==
  /\ ~pending
  /\ Invoke(column_value, selected, clickData, selectedData, ~erase)

\* the user adds an option to, or removes an entry from, the sequence dropdown
EditSequences ==
  /\ ~pending
  /\ \E v \in
       {(IF IsNone(selected) THEN <<>> ELSE selected.val) \o <<s>> :
          s \in Range(sequence_options) \
                (IF IsNone(selected) THEN {} ELSE Range(selected.val))}
       \cup (IF IsNone(selected) THEN {}
             ELSE {SelectSeq(selected.val, LAMBDA x : x # s) :
                     s \in Range(selected.val)}) :
       Invoke(column_value, Some(v), clickData, selectedData, erase)

\* the user clicks a point of the figure; customdata[4] is its sequence
Click ==
  /\ ~pending
  /\ \E i \in 1..Len(fig.plot_data) :
       Invoke(column_value, selected, Some(fig.plot_data[i].sequence),
              selectedData, erase)

\* the user lassoes points of the figure
Lasso ==
  /\ ~pending
  /\ fig.plot_data # <<>>
  /\ \E pts \in {p \in SeqUpTo(1..Len(fig.plot_data), MaxLasso) :
                   \A i, j \in 1..Len(p) : i # j => p[i] # p[j]} :
       Invoke(column_value, selected, clickData,
              Some([k \in 1..Len(pts) |-> fig.plot_data[pts[k]].sequence]), erase)

\* the user double-clicks the figure: the lasso selection is dropped
Deselect ==
  /\ ~pending
  /\ ~IsNone(selectedData)
  /\ Invoke(column_value, selected, clickData, None, erase)

Next ==
  \/ UploadData
  \/ UpdateGraphAfterUpload
  \/ SelectColumn
  \/ SelectScale
  \/ SelectPages
  \/ ToggleErase
  \/ EditSequences
  \/ Click
  \/ Lasso
  \/ Deselect

Spec == Init /\ [][Next]_vars

(***************************************************************************)
(* The first upload on a fresh page, of any file of a wider family.        *)
(***************************************************************************)
\* upload_data reads only the schema of a file it turns down, so those
\* files are uploaded without rows; the extension and the unused column of
\* a file it accepts do not reach its result, so the files with rows are
\* uploaded as csv without the unused column
WideFiles ==
  [ext : Extensions, schema : Schemas, rows : {<<>>}]
  \cup [ext : {"csv"},
        schema : {required_columns \o fc : fc \in FCLists \ {<<>>}},
        rows : SeqUpTo(RawRows, MaxRows) \ {<<>>}]

FirstUpload ==
  /\ ~pending
  /\ IsNone(contents)
  /\ \E file \in {Some(f) : f \in WideFiles} :
       \E r \in upload_data(file) : SetUploadOutputs(file, r)

SpecUpload == Init /\ [][FirstUpload]_vars

(***************************************************************************)
(* One table, from a fresh page to its plot: the first upload, with the    *)
(* selection the browser restored for the sequence dropdown                *)
(* (persistence=True, app.py 77), then the update_graph call and the first *)
(* choice of columns.                                                      *)
(***************************************************************************)
\* The sort of app.py 138 may return every sorted arrangement of the rows,
\* whatever their order in the file, so these files are uploaded with their
\* rows in one order only: non-decreasing in RowRank.
RowRank(row) ==
  ((row.GroupID * 2 + StrRank(row.Position)) * 16 + StrRank(row.seq_origin)) * 16
  + StrRank(row.sequence)

\* distinct rows of one group: with a second row, its "0Z" rows are parents
ViewTables ==
  {t \in SeqUpTo({r \in RawRows : r.GroupID = 1}, MaxViewRows) \ {<<>>} :
     \A i \in 1..(Len(t) - 1) : RowRank(t[i]) < RowRank(t[i + 1])}

ViewFiles ==
  [ext : {"csv"},
   schema : {required_columns \o fc : fc \in {<<"FC.A">>, <<"FC.A", "FC.B">>}},
   rows : ViewTables]

\* "s3" was selected against an earlier table; no uploaded table has it
PersistedSelections ==
  {None, Some(<<>>), Some(<<"s1">>), Some(<<"s2">>), Some(<<"s1", "s3">>),
   Some(<<"s3", "s2">>)}

InitView ==
  /\ contents = None
  /\ data_store = <<>>
  /\ upload_children = [kind |-> "prompt"]
  /\ column_options = <<>>
  /\ column_value = None
  /\ sequence_options = <<>>
  /\ selected \in PersistedSelections
  /\ clickData = None
  /\ selectedData = None
  /\ erase = FALSE
  /\ fig = EmptyFig
  /\ selection_data = <<>>
  /\ pending = FALSE
  /\ error = ""
  /\ lastClick = None

FirstUploadView ==
  /\ ~pending
  /\ IsNone(contents)
  /\ \E file \in {Some(f) : f \in ViewFiles} :
       \E r \in upload_data(file) : SetUploadOutputs(file, r)

\* the first choice of columns after the upload (column_value is still the
\* single name upload_data wrote)
FirstSelectColumn ==
  /\ "str" \in DOMAIN column_value
  /\ SelectColumn

NextView ==
  \/ FirstUploadView
  \/ UpdateGraphAfterUpload
  \/ FirstSelectColumn

SpecView == InitView /\ [][NextView]_vars

(***************************************************************************)
(* Properties of app.py                                                    *)
(***************************************************************************)
SelectionSet == IF IsNone(selected) THEN {} ELSE Range(selected.val)

TableSequences == {data_store[i].sequence : i \in 1..Len(data_store)}

\* ordinary = 0 < parent = 1 < selection = 2
Priority(row) ==
  CASE row.Legend = "selection" -> 2
    [] row.Legend = "parent" -> 1
    [] OTHER -> 0

\* the stacked table the latest update_graph call sorted
Stacked ==
  Stack(IF IsNone(selected) THEN data_store
        ELSE [k \in 1..Len(data_store) |-> WithSelection(data_store[k], selected)],
        AsList(column_value))

\* the place of a plotted row in the stacked table (index and Target name it)
StackPos(row) == CHOOSE k \in 1..Len(Stacked) : Stacked[k] = row

Targets == {fig.plot_data[i].Target : i \in 1..Len(fig.plot_data)}

\* C1: when upload_data has stored a new table, the selection that the
\* update_graph call it triggers will read holds no sequence any more.
C1_SelectionClearedOnUpload ==
  (pending /\ data_store # <<>>) => SelectionSet = {}

C3_ParentClassification ==
  \A i \in 1..Len(data_store) :
    LET row == data_store[i]
        members == {k \in 1..Len(contents.val.rows) :
                      contents.val.rows[k].GroupID = row.GroupID}
        isParent == Cardinality(members) > 1 /\ row.Position = "0Z"
    IN /\ (row.Legend = "parent") <=> isParent
       /\ ~isParent => row.Legend = row.seq_origin

C3_Witness ==
  /\ \E i \in 1..Len(data_store) : data_store[i].Legend = "parent"
  /\ \E i \in 1..Len(data_store) :
       /\ data_store[i].Position = "0Z"
       /\ data_store[i].Legend # "parent"
  /\ \E i \in 1..Len(data_store) :
       /\ data_store[i].Position # "0Z"
       /\ \E k \in 1..Len(data_store) :
            k # i /\ data_store[k].GroupID = data_store[i].GroupID

\* C4: a click that repeats the click of the call before it, with the same
\* erase setting, leaves the selection as that call left it; a click without
\* erase leaves its sequence selected and removes nothing, and a click with
\* erase leaves its sequence unselected.
C4_ClickIdempotent ==
  [][~IsNone(lastClick') =>
       LET c == lastClick'.val
       IN /\ c.repeated => selected' = selected
          /\ ~c.erase =>
               /\ ~IsNone(selected')
               /\ c.seq \in Range(selected'.val)
               /\ IsNone(selected) \/ Range(selected.val) \subseteq Range(selected'.val)
          /\ c.erase => IsNone(selected') \/ c.seq \notin Range(selected'.val)]_vars

C4_Witness ==
  /\ ~IsNone(lastClick)
  /\ lastClick.val.repeated
  /\ ~lastClick.val.erase
  /\ lastClick.val.seq \in SelectionSet
  /\ Cardinality(SelectionSet) = 2

\* C5: in the plotted table no row comes before a row of lower priority
\* (ordinary < parent < selection).
C5_PriorityOrder ==
  \A i, j \in 1..Len(fig.plot_data) :
    i < j => Priority(fig.plot_data[i]) <= Priority(fig.plot_data[j])

C5_Witness ==
  /\ Cardinality(Targets) = 2
  /\ {Priority(fig.plot_data[i]) : i \in 1..Len(fig.plot_data)} = {0, 1, 2}

\* C6: a parsed file that lacks a required column is turned down with a
\* message naming a column it lacks, and nothing is stored: no table, no
\* column options or value, no sequence options.
LacksRequired ==
  /\ ~IsNone(contents)
  /\ contents.val.ext \in {"csv", "xlsx"}
  /\ Range(required_columns) \ Range(contents.val.schema) # {}

C6_MissingColumnRejected ==
  LacksRequired =>
    /\ upload_children.kind = "missing_column"
    /\ upload_children.column
         \in Range(required_columns) \ Range(contents.val.schema)
    /\ data_store = <<>>
    /\ column_options = <<>>
    /\ IsNone(column_value)
    /\ sequence_options = <<>>

C6_Witness ==
  /\ LacksRequired
  /\ Range(contents.val.schema) \cap FCNames = {}
  /\ Range(required_columns) \ Range(contents.val.schema) = {"Input_CPM"}
  /\ upload_children.kind = "missing_column"

\* C8 as stated, in the case it names: two ordinary rows of different
\* origins keep the order they had in the stacked table (the plotted table
\* is the stacked table stably sorted on the priority alone).
C8_OrdinaryRowsKeepOrder ==
  (~pending /\ fig.plot_data # <<>>) =>
    \A i, j \in 1..Len(fig.plot_data) :
      (/\ i < j
       /\ Priority(fig.plot_data[i]) = 0
       /\ Priority(fig.plot_data[j]) = 0
       /\ fig.plot_data[i].Legend # fig.plot_data[j].Legend)
        => StackPos(fig.plot_data[i]) < StackPos(fig.plot_data[j])

\* C8 as amended: the plotted table is a rearrangement of the stacked table
\* in which the rows of one Legend are adjacent (the sort has Legend as its
\* third column, after the two priority flags).
C8_GroupedByLegend ==
  (~pending /\ fig.plot_data # <<>>) =>
    /\ Len(fig.plot_data) = Len(Stacked)
    /\ Range(fig.plot_data) = Range(Stacked)
    /\ \A i, j, k \in 1..Len(fig.plot_data) :
         (i < j /\ j < k /\ fig.plot_data[i].Legend = fig.plot_data[k].Legend)
           => fig.plot_data[j].Legend = fig.plot_data[i].Legend

\* two ordinary rows of different origins have changed places
C8_Witness ==
  /\ ~pending
  /\ Cardinality(Targets) = 2
  /\ \E i, j \in 1..Len(fig.plot_data) :
       /\ i < j
       /\ Priority(fig.plot_data[i]) = 0
       /\ Priority(fig.plot_data[j]) = 0
       /\ fig.plot_data[i].Legend # fig.plot_data[j].Legend
       /\ StackPos(fig.plot_data[i]) > StackPos(fig.plot_data[j])

(***************************************************************************)
(* pages/r3.py: the callbacks on the page's state                          *)
(***************************************************************************)
\* one call of r3.py's update_graph; when it raises, Dash leaves its
\* outputs as they are
InvokeR3(y_column, sel, click_data, selected_data, er) ==
  /\ \E out \in update_graph_r3(data_store, y_column, sel, click_data,
                                selected_data, er) :
       IF out.raised # ""
         THEN /\ error' = out.raised
              /\ selected' = sel
              /\ clickData' = click_data
              /\ UNCHANGED <<fig, selection_data>>
         ELSE /\ error' = ""
              /\ fig' = out.fig
              /\ selected' = out.selected
              /\ clickData' = out.click_data
              /\ selection_data' = out.selection_data
  /\ column_value' = y_column
  /\ selectedData' = selected_data
  /\ erase' = er
  /\ pending' = FALSE
  /\ lastClick' =
       IF IsNone(click_data) THEN None
       ELSE Some([seq |-> click_data.val, erase |-> er,
                  repeated |-> ~IsNone(lastClick)
                               /\ lastClick.val.seq = click_data.val
                               /\ lastClick.val.erase = er])
  /\ UNCHANGED <<contents, data_store, upload_children, column_options,
                 sequence_options>>

(***************************************************************************)
(* One table on the ranked page: the first upload, the update_graph call   *)
(* it triggers, and choices of the column.                                 *)
(***************************************************************************)
\* rows of the origin whose trace is highlighted, and one row each of a
\* control and of the unmapped origin
R3Rows ==
  [GroupID : {1}, Position : {"1A"}, seq_origin : {"A"},
   sequence : SequenceIds, Input_CPM : {10}, A_CPM : {1, 2}, FC : {1, 2}]
  \cup [GroupID : {1}, Position : {"1A"}, seq_origin : {"GS1", "unmapped"},
        sequence : {"s2"}, Input_CPM : {10}, A_CPM : {1}, FC : {1}]

R3RowRank(row) ==
  ((StrRank(row.seq_origin) * 16 + StrRank(row.sequence)) * 4 + row.A_CPM) * 4
  + row.FC

\* The two sorts of update_graph (r3.py 236, 242) may return every
\* arrangement of a facet's rows that descends in Input_CPM, whatever their
\* order in the file, so files are uploaded with their rows in one order
\* only: non-decreasing in R3RowRank.
R3Tables ==
  {t \in SeqUpTo(R3Rows, MaxR3Rows) :
     \A i \in 1..(Len(t) - 1) : R3RowRank(t[i]) <= R3RowRank(t[i + 1])}

R3Schemas ==
  {SelectSeq(required_columns_r3, LAMBDA c : c \in keep) \o cpm \o fc :
     keep \in SUBSET Range(required_columns_r3),
     cpm \in {<<>>, <<"Input_CPM">>, <<"A_CPM">>, <<"Input_CPM", "A_CPM">>},
     fc \in {<<>>, <<"FC.A">>, <<"FC">>, <<"FC.B">>, <<"FC.A", "FC">>}}

R3OneRow ==
  [GroupID |-> 1, Position |-> "1A", seq_origin |-> "A", sequence |-> "s1",
   Input_CPM |-> 10, A_CPM |-> 1, FC |-> 1]

\* every schema with no row and with one row; the tables on the schemas
\* that have all the columns update_graph selects
R3Files ==
  [ext : Extensions, schema : R3Schemas, rows : {<<>>, <<R3OneRow>>}]
  \cup [ext : {"csv"},
        schema : {required_columns_r3 \o <<"Input_CPM", "A_CPM">> \o fc :
                    fc \in {<<"FC.A">>, <<"FC.A", "FC">>}},
        rows : R3Tables]

InitR3 ==
  /\ contents = None
  /\ data_store = <<>>
  /\ upload_children = [kind |-> "prompt"]
  /\ column_options = <<>>
  /\ column_value = None
  /\ sequence_options = <<>>
  /\ selected \in {None, Some(<<"s1">>)}
  /\ clickData = None
  /\ selectedData = None
  /\ erase = FALSE
  /\ fig = EmptyFig
  /\ selection_data = <<>>
  /\ pending = FALSE
  /\ error = ""
  /\ lastClick = None

FirstUploadR3 ==
  /\ ~pending
  /\ IsNone(contents)
  /\ \E file \in {Some(f) : f \in R3Files} :
       \E r \in upload_data_r3(file) : SetUploadOutputs(file, r)

\* update_graph, triggered by upload_data's write of column_value
UpdateGraphR3AfterUpload ==
  /\ pending
  /\ InvokeR3(column_value, selected, clickData, selectedData, erase)

\* the user picks another column of the (single-valued) column dropdown
SelectColumnR3 ==
  /\ ~pending
  /\ \E c \in Range(column_options) :
       /\ Str(c) # column_value
       /\ InvokeR3(Str(c), selected, clickData, selectedData, erase)

NextR3 ==
  \/ FirstUploadR3
  \/ UpdateGraphR3AfterUpload
  \/ SelectColumnR3

SpecR3 == InitR3 /\ [][NextR3]_vars

(***************************************************************************)
(* Properties of pages/r3.py                                               *)
(***************************************************************************)
\* the plotted rows of the trace that holds plotted row p
FigTrace(p) ==
  SelectSeq(fig.plot_data, LAMBDA q : /\ q.Legend = p.Legend
                                      /\ q.seq_origin = p.seq_origin)

\* a row of a trace that is not the selection, a control or the unmapped one
Highlighted(p) == p.Legend \notin {"selection", "unmapped", "GS1", "Ref"}

TopEnriched(p) ==
  LET trace == FigTrace(p)
  IN p.y \in Range(Top([k \in 1..Len(trace) |-> trace[k].y]))

TopAbundant(p) ==
  LET trace == FigTrace(p)
  IN p.cpm \in Range(Top([k \in 1..Len(trace) |-> trace[k].cpm]))

Min(a, b) == IF a < b THEN a ELSE b

\* C7: on a stored, non-empty table no update_graph call of the ranked page
\* raises.
C7_NoFailure ==
  data_store # <<>> => error = ""

\* C9: in every highlighted trace the rows tagged top-enriched, and the rows
\* in the top-abundant set, number min(TopK, rows of the trace).
C9_ExactlyTopK ==
  \A i \in 1..Len(fig.plot_data) :
    LET p == fig.plot_data[i]
        trace == FigTrace(p)
    IN Highlighted(p) =>
         /\ Cardinality({k \in 1..Len(trace) : trace[k].color = "gold"})
              = Min(TopK, Len(trace))
         /\ Cardinality({k \in 1..Len(trace) : TopAbundant(trace[k])})
              = Min(TopK, Len(trace))

\* C10 as stated: two rows of a highlighted trace that differ in their
\* membership of the top-enriched or of the top-abundant set have different
\* colours.
C10_FourClassesDistinct ==
  \A i, j \in 1..Len(fig.plot_data) :
    LET p == fig.plot_data[i]
        q == fig.plot_data[j]
    IN (/\ Highlighted(p)
        /\ p.Legend = q.Legend
        /\ p.seq_origin = q.seq_origin
        /\ <<TopEnriched(p), TopAbundant(p)>> # <<TopEnriched(q), TopAbundant(q)>>)
         => p.color # q.color

\* C10 as amended: a top-enriched row is gold whether or not it is
\* top-abundant, a row that is only top-abundant is chocolate, and a row in
\* neither set keeps the colour of its trace.
C10_ThreeTags ==
  \A i \in 1..Len(fig.plot_data) :
    LET p == fig.plot_data[i]
    IN Highlighted(p) =>
         p.color = (IF TopEnriched(p) THEN "gold"
                    ELSE IF TopAbundant(p) THEN "chocolate"
                    ELSE "default")

\* a trace with a row of each of the four classes
C10_Witness ==
  \E i \in 1..Len(fig.plot_data) :
    LET p == fig.plot_data[i]
        trace == FigTrace(p)
    IN /\ Highlighted(p)
       /\ {<<TopEnriched(trace[k]), TopAbundant(trace[k])>> : k \in 1..Len(trace)}
            = BOOLEAN \X BOOLEAN

(***************************************************************************)
(* Properties of the selection over a session of app.py                    *)
(***************************************************************************)
\* C11: an update_graph call triggered by the erase switch, the scale, the
\* pages or the column dropdown (no new click, no new lasso) that plots the
\* table leaves the selection as it was, also when selectedData still holds
\* an earlier lasso.
C11_NoEventKeepsSelection ==
  [][((ToggleErase \/ SelectScale \/ SelectPages \/ SelectColumn)
        /\ fig'.plot_data # <<>>)
       => selected' = selected]_vars

\* C12: no sequence occurs twice in the selection list.
C12_NoDuplicates ==
  ~IsNone(selected) =>
    \A i, j \in 1..Len(selected.val) :
      i # j => selected.val[i] # selected.val[j]

====
